---- MODULE Spec2Model ----
(***************************************************************************)
(* Model of the Home component of src/next.config.mjs (lines 39-182): the  *)
(* image acquisition handlers (file picker, camera), the preview reads and *)
(* identifyPlant with the parsing of the service's response.               *)
(*                                                                         *)
(* A text is a JavaScript string: the sequence of its UTF-16 code units,   *)
(* each a number in 0..65535.                                              *)
(***************************************************************************)
EXTENDS Integers, Sequences, FiniteSets, TLC

\* ---------------------------------------------------------------- bounds
MaxFiles == 2
MaxCameraRequests == 2
MaxInFlight == 2
MaxPendingBlobs == 1

\* ----------------------------------------------------------------- texts
\* The printable ASCII characters in the order of their codes, from 32 (the
\* space) to 126 (the tilde).  Code 96, the backquote, cannot be written in a
\* string of this language and is left out; its place holds no character.
Printable ==
  <<" ", "!", "\"", "#", "$", "%", "&", "'", "(", ")", "*", "+", ",", "-", ".",
    "/", "0", "1", "2", "3", "4", "5", "6", "7", "8", "9", ":", ";", "<", "=",
    ">", "?", "@", "A", "B", "C", "D", "E", "F", "G", "H", "I", "J", "K", "L",
    "M", "N", "O", "P", "Q", "R", "S", "T", "U", "V", "W", "X", "Y", "Z", "[",
    "\\", "]", "^", "_", "", "a", "b", "c", "d", "e", "f", "g", "h", "i", "j",
    "k", "l", "m", "n", "o", "p", "q", "r", "s", "t", "u", "v", "w", "x", "y",
    "z", "{", "|", "}", "~">>

\* The code unit of a printable character.
CodeOf(c) == 31 + CHOOSE i \in DOMAIN Printable : Printable[i] = c

\* The text spelled by a sequence of printable characters.
Str(s) == [i \in 1..Len(s) |-> CodeOf(s[i])]

Backquote == 96
BS == 8
TAB == 9
NL == 10
FF == 12
CR == 13
SP == CodeOf(" ")
Quote == CodeOf("\"")
Backslash == CodeOf("\\")
Slash == CodeOf("/")
Minus == CodeOf("-")
Plus == CodeOf("+")
Dot == CodeOf(".")
Comma == CodeOf(",")
Colon == CodeOf(":")
LBrace == CodeOf("{")
RBrace == CodeOf("}")
LBracket == CodeOf("[")
RBracket == CodeOf("]")
Zero == CodeOf("0")
Digits == Zero..CodeOf("9")

\* The three backquotes and the tag of the pattern of line 163.
Fence == <<Backquote, Backquote, Backquote>>
JsonTag == Str(<<"j", "s", "o", "n">>)

Min(S) == CHOOSE x \in S : \A y \in S : x <= y
Max(S) == CHOOSE x \in S : \A y \in S : x >= y

\* The word w stands in the text t from position i on.
At(t, i, w) ==
  /\ i >= 1
  /\ i + Len(w) - 1 <= Len(t)
  /\ \A k \in 1..Len(w) : t[i + k - 1] = w[k]

\* The code units String.prototype.trim() removes (line 164): the WhiteSpace
\* and LineTerminator code points of ECMAScript, that is tab, line feed,
\* vertical tab, form feed, carriage return, space, U+00A0, U+1680,
\* U+2000..U+200A, U+2028, U+2029, U+202F, U+205F, U+3000 and U+FEFF.
TrimWhiteSpace ==
  {TAB, NL, 11, FF, CR, SP, 160, 5760, 8232, 8233, 8239, 8287, 12288, 65279}
    \cup (8192..8202)

IsWs(c) == c \in TrimWhiteSpace

\* The code units JSON.parse skips between tokens (line 168): tab, line feed,
\* carriage return and space only.
JsonWhiteSpace == {TAB, NL, CR, SP}

\* String.prototype.replace(/FENCEjson\n?|\n?FENCE/g, "") of line 163, FENCE
\* standing for the three backquotes: the leftmost position where the pattern
\* matches is found, the first alternative is tried there before the second,
\* each optional newline is taken when it is there, the match is removed and
\* the scan resumes after it.
RECURSIVE StripFences(_)
StripFences(t) ==
  LET n == Len(t)
      starts == {i \in 1..n : \/ At(t, i, Fence)
                              \/ (t[i] = NL /\ At(t, i + 1, Fence))}
  IN IF starts = {} THEN t
     ELSE LET i == Min(starts)
              len == IF At(t, i, Fence \o JsonTag)
                       THEN IF At(t, i + 7, <<NL>>) THEN 8 ELSE 7
                       ELSE IF t[i] = NL THEN 4 ELSE 3
          IN SubSeq(t, 1, i - 1) \o StripFences(SubSeq(t, i + len, n))

\* What is left of t from its first code unit that is not white space.
TrimStart(t) ==
  LET keep == {i \in 1..Len(t) : ~IsWs(t[i])}
  IN IF keep = {} THEN <<>> ELSE SubSeq(t, Min(keep), Len(t))

\* What is left of t up to its last code unit that is not white space.
TrimEnd(t) ==
  LET keep == {i \in 1..Len(t) : ~IsWs(t[i])}
  IN IF keep = {} THEN <<>> ELSE SubSeq(t, 1, Max(keep))

\* String.prototype.trim() of line 164.
Trim(t) == TrimEnd(TrimStart(t))

\* const cleanedResponse = responseText.replace(...).trim()   (lines 162-164)
cleanedResponse(responseText) == Trim(StripFences(responseText))

\* ------------------------------------------------------------ JSON.parse
\* JavaScript values, tagged by kind.  A string is the sequence of its code
\* units.  A number is kept as the exact decimal value its literal denotes,
\* (-1)^neg * digits * 10^exp, digits being a sequence of decimal digits with
\* no zero at either end (empty for zero, whose sign JavaScript keeps) and exp
\* an integer of any size, written as a sign and its decimal digits (BigInt
\* below); the double JSON.parse returns is the one nearest to that value.
JsNull == [t |-> "null"]
JsStr(s) == [t |-> "str", s |-> s]
JsNum(neg, digits, exp) == [t |-> "num", neg |-> neg, digits |-> digits, exp |-> exp]
JsBool(b) == [t |-> "bool", b |-> b]
JsArr(a) == [t |-> "arr", a |-> a]
JsObj(m) == [t |-> "obj", m |-> m]

ParseFail == [ok |-> FALSE]
ParseOk(v, rest) == [ok |-> TRUE, val |-> v, rest |-> rest]

\* Skipping the white space between tokens.
SkipWs(t) ==
  LET keep == {i \in 1..Len(t) : t[i] \notin JsonWhiteSpace}
  IN IF keep = {} THEN <<>> ELSE SubSeq(t, Min(keep), Len(t))

\* The value of a hexadecimal digit, -1 for any other code unit.
HexVal(c) ==
  IF c \in Digits THEN c - Zero
  ELSE IF c \in CodeOf("A")..CodeOf("F") THEN c - CodeOf("A") + 10
  ELSE IF c \in CodeOf("a")..CodeOf("f") THEN c - CodeOf("a") + 10
  ELSE -1

\* The characters of a string literal without its quotes, escapes decoded:
\* \" \\ \/ \b \f \n \r \t and \u with four hexadecimal digits; any other
\* escape is a syntax error.
RECURSIVE Unescape(_)
Unescape(body) ==
  LET n == Len(body)
      marks == {i \in 1..n : body[i] = Backslash}
  IN IF marks = {} THEN [ok |-> TRUE, val |-> body]
     ELSE
       LET i == Min(marks)
           e == IF i < n THEN body[i + 1] ELSE -1
           hex == [k \in 1..4 |-> IF i + 1 + k <= n THEN HexVal(body[i + 1 + k]) ELSE -1]
           one == CASE e = Quote -> Quote
                    [] e = Backslash -> Backslash
                    [] e = Slash -> Slash
                    [] e = CodeOf("b") -> BS
                    [] e = CodeOf("f") -> FF
                    [] e = CodeOf("n") -> NL
                    [] e = CodeOf("r") -> CR
                    [] e = CodeOf("t") -> TAB
                    [] OTHER -> -1
       IN IF e = CodeOf("u")
            THEN IF \E k \in 1..4 : hex[k] = -1 THEN ParseFail
                 ELSE LET r == Unescape(SubSeq(body, i + 6, n)) IN
                   IF ~r.ok THEN ParseFail
                   ELSE [ok |-> TRUE,
                         val |-> SubSeq(body, 1, i - 1)
                                 \o <<4096 * hex[1] + 256 * hex[2] + 16 * hex[3] + hex[4]>>
                                 \o r.val]
          ELSE IF one = -1 THEN ParseFail
          ELSE LET r == Unescape(SubSeq(body, i + 2, n)) IN
            IF ~r.ok THEN ParseFail
            ELSE [ok |-> TRUE, val |-> SubSeq(body, 1, i - 1) \o <<one>> \o r.val]

\* The number of backslashes standing immediately before position i.
BackslashRun(t, i) ==
  Max({j \in 0..(i - 1) : \A k \in (i - j)..(i - 1) : t[k] = Backslash})

\* A string literal, t being the text after its opening quote: it ends at the
\* first quote that no backslash escapes (one with an even number of
\* backslashes before it).  A raw control character (below U+0020) inside the
\* literal is a syntax error.
ScanString(t) ==
  LET closers == {i \in 1..Len(t) : t[i] = Quote /\ BackslashRun(t, i) % 2 = 0}
  IN IF closers = {} THEN ParseFail
     ELSE LET q == Min(closers)
              body == SubSeq(t, 1, q - 1)
          IN IF \E i \in 1..(q - 1) : body[i] < SP THEN ParseFail
             ELSE LET u == Unescape(body) IN
               IF u.ok THEN ParseOk(u.val, SubSeq(t, q + 1, Len(t))) ELSE ParseFail

\* The last position of the run of digits that starts at s (s - 1 if there is
\* no digit at s).
DigitRunEnd(t, s) ==
  LET stops == {i \in s..Len(t) : t[i] \notin Digits}
  IN IF stops = {} THEN Len(t) ELSE Min(stops) - 1

\* An integer of any size: a sign and the decimal digits of its magnitude,
\* most significant first and without a leading zero (none at all for 0,
\* which is not negative).
BigInt(neg, digits) == [neg |-> neg /\ digits # <<>>, digits |-> digits]

\* A sequence of digits without its leading zeros.
StripZeros(d) ==
  LET nz == {i \in 1..Len(d) : d[i] # 0}
  IN IF nz = {} THEN <<>> ELSE SubSeq(d, Min(nz), Len(d))

\* The digits of a natural number.
RECURSIVE NatDigits(_)
NatDigits(n) == IF n = 0 THEN <<>> ELSE Append(NatDigits(n \div 10), n % 10)

\* The integer i, of the size of the length of a text, as a BigInt.
BigOf(i) == BigInt(i < 0, NatDigits(IF i < 0 THEN -i ELSE i))

\* The digit of weight 10^(n - i) of d, d read as a number of n digits.
DigitAt(d, n, i) == IF i > n - Len(d) THEN d[i - (n - Len(d))] ELSE 0

\* a < b, for magnitudes a and b without leading zeros.
MagLess(a, b) ==
  \/ Len(a) < Len(b)
  \/ /\ Len(a) = Len(b)
     /\ \E i \in 1..Len(a) : a[i] < b[i] /\ \A k \in 1..(i - 1) : a[k] = b[k]

\* a + b by columns: a carry comes into column i when a column to its right
\* overflows and every column between passes a carry on (sums to 9).
MagAdd(a, b) ==
  LET n == (IF Len(a) > Len(b) THEN Len(a) ELSE Len(b)) + 1
      sum(i) == DigitAt(a, n, i) + DigitAt(b, n, i)
      carry(i) == IF \E j \in (i + 1)..n :
                        sum(j) >= 10 /\ \A k \in (i + 1)..(j - 1) : sum(k) = 9
                    THEN 1 ELSE 0
  IN StripZeros([i \in 1..n |-> (sum(i) + carry(i)) % 10])

\* a - b by columns, for a >= b: a column borrows from column i when it is
\* short and every column between has nothing to lend (equal digits).
MagSub(a, b) ==
  LET n == Len(a)
      borrow(i) == IF \E j \in (i + 1)..n :
                         /\ DigitAt(a, n, j) < DigitAt(b, n, j)
                         /\ \A k \in (i + 1)..(j - 1) : DigitAt(a, n, k) = DigitAt(b, n, k)
                     THEN 1 ELSE 0
  IN StripZeros([i \in 1..n |->
                   (DigitAt(a, n, i) - DigitAt(b, n, i) - borrow(i) + 10) % 10])

\* x + y
BigAdd(x, y) ==
  IF x.neg = y.neg THEN BigInt(x.neg, MagAdd(x.digits, y.digits))
  ELSE IF MagLess(x.digits, y.digits) THEN BigInt(y.neg, MagSub(y.digits, x.digits))
  ELSE BigInt(x.neg, MagSub(x.digits, y.digits))

\* The value (-1)^neg * d * 10^(e + shift) of a number literal, d freed of the
\* zeros at its ends; e is a BigInt and shift an integer.
NumberValue(neg, d, e, shift) ==
  LET nz == {i \in 1..Len(d) : d[i] # 0}
  IN IF nz = {} THEN JsNum(neg, <<>>, BigOf(0))
     ELSE JsNum(neg, SubSeq(d, Min(nz), Max(nz)),
                BigAdd(e, BigOf(shift + Len(d) - Max(nz))))

\* A number literal at the head of t: an optional minus, then 0 or a digit
\* run that does not start with 0, then an optional fraction (a dot and at
\* least one digit), then an optional exponent (e or E, an optional sign and
\* at least one digit).
ParseNumber(t) ==
  LET n == Len(t)
      neg == t[1] = Minus
      s == IF neg THEN 2 ELSE 1
      intEnd == IF s <= n /\ t[s] = Zero THEN s ELSE DigitRunEnd(t, s)
      hasFrac == intEnd < n /\ t[intEnd + 1] = Dot
      fracEnd == IF hasFrac THEN DigitRunEnd(t, intEnd + 2) ELSE intEnd
      hasExp == fracEnd < n /\ t[fracEnd + 1] \in {CodeOf("e"), CodeOf("E")}
      signed == hasExp /\ fracEnd + 1 < n /\ t[fracEnd + 2] \in {Plus, Minus}
      expStart == fracEnd + (IF signed THEN 3 ELSE 2)
      expEnd == IF hasExp THEN DigitRunEnd(t, expStart) ELSE fracEnd
      digit(i) == t[i] - Zero
      mantissa == [i \in 1..(intEnd - s + 1) |-> digit(s + i - 1)]
                  \o (IF hasFrac THEN [i \in 1..(fracEnd - intEnd - 1) |-> digit(intEnd + 1 + i)]
                      ELSE <<>>)
      fracLen == IF hasFrac THEN fracEnd - intEnd - 1 ELSE 0
      exponent == IF hasExp
                    THEN BigInt(signed /\ t[fracEnd + 2] = Minus,
                                StripZeros([i \in 1..(expEnd - expStart + 1) |->
                                              digit(expStart + i - 1)]))
                    ELSE BigOf(0)
  IN IF \/ intEnd < s
        \/ (hasFrac /\ fracEnd < intEnd + 2)
        \/ (hasExp /\ expEnd < expStart)
       THEN ParseFail
       ELSE ParseOk(NumberValue(neg, mantissa, exponent, -fracLen),
                    SubSeq(t, expEnd + 1, n))

RECURSIVE ParseValue(_)
RECURSIVE ParseMembers(_, _)
RECURSIVE ParseElements(_, _)

\* members of an object after "{" or ",": string ws ":" value, then "," or "}"
\* a repeated key keeps its last value.
ParseMembers(t0, m) ==
  LET t == SkipWs(t0) IN
  IF t = <<>> \/ t[1] # Quote THEN ParseFail
  ELSE LET k == ScanString(Tail(t)) IN
    IF ~k.ok THEN ParseFail
    ELSE LET t1 == SkipWs(k.rest) IN
      IF t1 = <<>> \/ t1[1] # Colon THEN ParseFail
      ELSE LET v == ParseValue(Tail(t1)) IN
        IF ~v.ok THEN ParseFail
        ELSE LET t2 == SkipWs(v.rest)
                 m2 == [x \in (DOMAIN m) \cup {k.val} |->
                          IF x = k.val THEN v.val ELSE m[x]]
             IN IF t2 = <<>> THEN ParseFail
                ELSE IF t2[1] = RBrace THEN ParseOk(JsObj(m2), Tail(t2))
                ELSE IF t2[1] = Comma THEN ParseMembers(Tail(t2), m2)
                ELSE ParseFail

\* elements of an array after "[" or ","
ParseElements(t0, a) ==
  LET v == ParseValue(t0) IN
  IF ~v.ok THEN ParseFail
  ELSE LET t2 == SkipWs(v.rest) IN
    IF t2 = <<>> THEN ParseFail
    ELSE IF t2[1] = RBracket THEN ParseOk(JsArr(Append(a, v.val)), Tail(t2))
    ELSE IF t2[1] = Comma THEN ParseElements(Tail(t2), Append(a, v.val))
    ELSE ParseFail

ParseValue(t0) ==
  LET t == SkipWs(t0) IN
  IF t = <<>> THEN ParseFail
  ELSE IF t[1] = LBrace THEN
    LET t1 == SkipWs(Tail(t)) IN
    IF t1 # <<>> /\ t1[1] = RBrace
      THEN ParseOk(JsObj([x \in {} |-> JsNull]), Tail(t1))
      ELSE ParseMembers(t1, [x \in {} |-> JsNull])
  ELSE IF t[1] = LBracket THEN
    LET t1 == SkipWs(Tail(t)) IN
    IF t1 # <<>> /\ t1[1] = RBracket
      THEN ParseOk(JsArr(<<>>), Tail(t1))
      ELSE ParseElements(t1, <<>>)
  ELSE IF t[1] = Quote THEN
    LET s == ScanString(Tail(t)) IN
    IF s.ok THEN ParseOk(JsStr(s.val), s.rest) ELSE ParseFail
  ELSE IF At(t, 1, Str(<<"n", "u", "l", "l">>)) THEN ParseOk(JsNull, SubSeq(t, 5, Len(t)))
  ELSE IF At(t, 1, Str(<<"t", "r", "u", "e">>))
    THEN ParseOk(JsBool(TRUE), SubSeq(t, 5, Len(t)))
  ELSE IF At(t, 1, Str(<<"f", "a", "l", "s", "e">>))
    THEN ParseOk(JsBool(FALSE), SubSeq(t, 6, Len(t)))
  ELSE IF t[1] = Minus \/ t[1] \in Digits THEN ParseNumber(t)
  ELSE ParseFail

\* The outcome of JSON.parse, v being what ParseValue read at the head of the
\* text: the value if nothing but white space follows it.
WholeText(v) ==
  IF v.ok /\ SkipWs(v.rest) = <<>> THEN [ok |-> TRUE, val |-> v.val]
  ELSE ParseFail

\* JSON.parse(text) of line 168: one value surrounded by optional whitespace;
\* anything else throws (ok = FALSE).
JsonParse(text) == WholeText(ParseValue(text))

\* ------------------------------------------------------- response texts
\* The keys of PlantInfo (lines 30-37).
KeyName == Str(<<"n", "a", "m", "e">>)
KeyScientificName ==
  Str(<<"s", "c", "i", "e", "n", "t", "i", "f", "i", "c", "N", "a", "m", "e">>)
KeyFamily == Str(<<"f", "a", "m", "i", "l", "y">>)
KeyOrigin == Str(<<"o", "r", "i", "g", "i", "n">>)
KeyCharacteristics ==
  Str(<<"c", "h", "a", "r", "a", "c", "t", "e", "r", "i", "s", "t", "i", "c", "s">>)
KeyUses == Str(<<"u", "s", "e", "s">>)

SixKeys == {KeyName, KeyScientificName, KeyFamily, KeyOrigin,
            KeyCharacteristics, KeyUses}

\* "key":"value"
Member(k, v) == <<Quote>> \o k \o <<Quote, Colon, Quote>> \o v \o <<Quote>>

\* The text of a flat object with the six keys of PlantInfo (lines 30-37), the
\* values given in the order name, scientificName, family, origin,
\* characteristics, uses.
SixFieldText(v) ==
  <<LBrace>> \o Member(KeyName, v[1]) \o <<Comma>> \o Member(KeyScientificName, v[2])
  \o <<Comma>> \o Member(KeyFamily, v[3]) \o <<Comma>> \o Member(KeyOrigin, v[4])
  \o <<Comma>> \o Member(KeyCharacteristics, v[5]) \o <<Comma>> \o Member(KeyUses, v[6])
  \o <<RBrace>>

\* The object such a text denotes.
SixFieldRecord(v) ==
  JsObj([k \in SixKeys |->
     JsStr(CASE k = KeyName -> v[1]
             [] k = KeyScientificName -> v[2]
             [] k = KeyFamily -> v[3]
             [] k = KeyOrigin -> v[4]
             [] k = KeyCharacteristics -> v[5]
             [] k = KeyUses -> v[6])])

RoseValues ==
  << Str(<<"R", "o", "s", "e">>), Str(<<"R", "o", "s", "a">>),
     Str(<<"R", "o", "s", "a", "c", "e", "a", "e">>), Str(<<"A", "s", "i", "a">>),
     Str(<<"T", "h", "o", "r", "n", "y", " ", "s", "h", "r", "u", "b">>),
     Str(<<"O", "r", "n", "a", "m", "e", "n", "t", "a", "l">>) >>
FernValues ==
  << Str(<<"F", "e", "r", "n">>), Str(<<"P", "t", "e", "r", "i", "d", "i", "u", "m">>),
     Str(<<"D", "e", "n", "n", "s", "t", "a", "e", "d", "t", "i", "a", "c", "e", "a", "e">>),
     Str(<<"W", "o", "r", "l", "d", "w", "i", "d", "e">>),
     Str(<<"F", "r", "o", "n", "d", "s">>),
     Str(<<"G", "r", "o", "u", "n", "d", " ", "c", "o", "v", "e", "r">>) >>

\* Code-fence wrappings of a structure: opening fence with or without the
\* json tag, with or without whitespace around the fenced block.
FencePrefixes == { Fence \o JsonTag \o <<NL>>, Fence \o <<NL>>,
                   <<NL>> \o Fence \o JsonTag \o <<NL>> }
FenceSuffixes == { <<NL>> \o Fence, <<NL>> \o Fence \o <<NL>> }

FencedTexts(body) == { p \o body \o q : p \in FencePrefixes, q \in FenceSuffixes }

\* Texts the service may answer with that are not a six-field structure.
PartialText == <<LBrace>> \o Member(KeyName, Str(<<"R", "o", "s", "e">>)) \o <<RBrace>>
ArrayText == <<LBracket, RBracket>>
ProseText == Str(<<"T", "h", "i", "s", " ", "i", "s", " ", "a", " ", "r", "o", "s", "e">>)

\* A fenced object with Windows line ends and tab indentation, an escaped
\* quote in its name and a number:
\*   FENCEjson CR NL { CR NL TAB "name": "Rose \"red\"", CR NL
\*   TAB "height": 3 CR NL } CR NL FENCE
IndentedText ==
  Fence \o JsonTag \o <<CR, NL, LBrace, CR, NL, TAB, Quote>> \o KeyName
  \o <<Quote, Colon, SP, Quote>> \o Str(<<"R", "o", "s", "e", " ", "\\", "\"", "r", "e", "d", "\\", "\"">>)
  \o <<Quote, Comma, CR, NL, TAB, Quote>> \o Str(<<"h", "e", "i", "g", "h", "t">>)
  \o <<Quote, Colon, SP>> \o Str(<<"3">>) \o <<CR, NL, RBrace, CR, NL>> \o Fence

Responses ==
  FencedTexts(SixFieldText(RoseValues))
  \cup {Fence \o JsonTag \o <<NL>> \o SixFieldText(FernValues) \o <<NL>> \o Fence}
  \cup {PartialText, ArrayText, ProseText, IndentedText}

\* ----------------------------------------------------------------- state
VARIABLES
  file,            \* useState file (line 40)
  preview,         \* useState preview (line 41)
  plantInfo,       \* useState plantInfo (line 42)
  loading,         \* useState loading (line 43)
  showCamera,      \* useState showCamera (line 44); the <video> element of
                   \* line 237 is mounted, and videoRef.current set, iff TRUE
  srcObject,       \* videoRef.current.srcObject: the attached stream, or NoStream
  hasMediaDevices, \* navigator.mediaDevices && getUserMedia exist (line 64)
  pendingMedia,    \* number of getUserMedia promises not yet settled (line 66)
  nextStream,      \* number of MediaStreams the device has handed out
  liveStreams,     \* the streams whose tracks have not been stopped
  pendingBlobs,    \* toBlob callbacks not yet run (line 91), each with what
                   \* it will be handed: "blob", or "null" (a stream was
                   \* attached but no blob came), or "noSession" (null, no
                   \* stream was attached)
  previewReads,    \* FileReader reads of handleImageSelection in progress
  currentRead,     \* the read of the current file: none, pending, loaded, failed
  idReads,         \* FileReader reads of identifyPlant in progress (line 125)
  idCalls,         \* generateContent calls not yet settled (line 149)
  nextFile,        \* number of File objects acquired so far
  openOutcome,     \* how the last startCamera ended
  captureOutcome,  \* how the last captureImage ended
  lastIdentify,    \* how the identifyPlant started last was resolved
  triggered,       \* the file of the render in which it was started (line 125)
  calls,           \* the number of generateContent calls it has issued
  resultOf         \* the payload of the call whose response set plantInfo

vars == <<file, preview, plantInfo, loading, showCamera, srcObject,
          hasMediaDevices, pendingMedia, nextStream, liveStreams, pendingBlobs,
          previewReads, currentRead, idReads, idCalls, nextFile,
          openOutcome, captureOutcome, lastIdentify, triggered, calls,
          resultOf>>

NoFile == [id |-> 0, type |-> "", size |-> 0]
NoPreview == [mime |-> "", data |-> 0]
NoStream == 0

\* What the picker can hand over: the accept attribute of line 211 is a
\* hint, so files of any media type arrive, and a file may be empty.
PickerInputs == {[type |-> "image/png", size |-> 1],
                 [type |-> "text/plain", size |-> 1],
                 [type |-> "image/png", size |-> 0]}

\* FileReader.readAsDataURL: "data:<type>;base64,<payload>", the payload
\* identified by the file it encodes.
DataURL(f) == [mime |-> f.type, data |-> f.id]

NoOutcome == [kind |-> "none", resp |-> <<>>]

Init ==
  /\ file = NoFile
  /\ preview = NoPreview
  /\ plantInfo = JsNull
  /\ loading = FALSE
  /\ showCamera = FALSE
  /\ srcObject = NoStream
  /\ hasMediaDevices \in BOOLEAN
  /\ pendingMedia = 0
  /\ nextStream = 0
  /\ liveStreams = {}
  /\ pendingBlobs = <<>>
  /\ previewReads = {}
  /\ currentRead = "none"
  /\ idReads = {}
  /\ idCalls = {}
  /\ nextFile = 0
  /\ openOutcome = "none"
  /\ captureOutcome = "none"
  /\ lastIdentify = NoOutcome
  /\ triggered = NoFile
  /\ calls = 0
  /\ resultOf = 0

cameraVars == <<showCamera, srcObject, hasMediaDevices, pendingMedia,
                nextStream, liveStreams, pendingBlobs, openOutcome,
                captureOutcome>>
identifyVars == <<plantInfo, loading, idReads, idCalls, lastIdentify,
                  triggered, calls, resultOf>>

\* ---------------------------------------------------- image acquisition
\* handleImageSelection (lines 55-60): setFile, then a new FileReader reads
\* the file; its onload sets the preview.
handleImageSelection(selectedFile) ==
  /\ file' = selectedFile
  /\ previewReads' = previewReads \cup {selectedFile}
  /\ currentRead' = "pending"

\* handleFileChange (lines 48-53) with no file chosen: nothing happens.
HandleFileChangeEmpty ==
  /\ UNCHANGED vars

\* handleFileChange (lines 48-53) with e.target.files[0] present.
HandleFileChange ==
  /\ nextFile < MaxFiles
  /\ \E f \in PickerInputs :
       handleImageSelection([id |-> nextFile + 1, type |-> f.type, size |-> f.size])
  /\ nextFile' = nextFile + 1
  /\ UNCHANGED <<preview, cameraVars, identifyVars>>

\* reader.onload of line 58.
PreviewLoaded ==
  /\ \E f \in previewReads :
       /\ preview' = DataURL(f)
       /\ previewReads' = previewReads \ {f}
       /\ currentRead' = IF f = file THEN "loaded" ELSE currentRead
  /\ UNCHANGED <<file, nextFile, cameraVars, identifyVars>>

\* The read of line 59 fails: the reader has no onerror handler.
PreviewReadError ==
  /\ \E f \in previewReads :
       /\ previewReads' = previewReads \ {f}
       /\ currentRead' = IF f = file THEN "failed" ELSE currentRead
  /\ UNCHANGED <<file, preview, nextFile, cameraVars, identifyVars>>

\* ----------------------------------------------------------------- camera
\* startCamera (lines 62-76) up to the await of line 66.  The Open Camera
\* button (lines 226-231) is always rendered.
StartCamera ==
  /\ nextStream + pendingMedia < MaxCameraRequests
  /\ showCamera' = TRUE
  /\ IF hasMediaDevices
       THEN /\ pendingMedia' = pendingMedia + 1
            /\ openOutcome' = "pending"
       ELSE /\ pendingMedia' = pendingMedia
            /\ openOutcome' = "noDevice"
  /\ captureOutcome' = "none"
  /\ UNCHANGED <<file, preview, previewReads, currentRead, nextFile, srcObject,
                 hasMediaDevices, nextStream, liveStreams, pendingBlobs,
                 identifyVars>>

\* getUserMedia resolves (lines 66-71): the stream is attached if the video
\* element is mounted.
MediaGranted ==
  /\ pendingMedia > 0
  /\ pendingMedia' = pendingMedia - 1
  /\ nextStream' = nextStream + 1
  /\ liveStreams' = liveStreams \cup {nextStream + 1}
  /\ srcObject' = IF showCamera THEN nextStream + 1 ELSE srcObject
  /\ openOutcome' = "granted"
  /\ UNCHANGED <<file, preview, previewReads, currentRead, nextFile, showCamera,
                 hasMediaDevices, pendingBlobs, captureOutcome, identifyVars>>

\* getUserMedia rejects (lines 72-74): permission denied or no device.
MediaDenied ==
  /\ pendingMedia > 0
  /\ pendingMedia' = pendingMedia - 1
  /\ openOutcome' = "denied"
  /\ UNCHANGED <<file, preview, previewReads, currentRead, nextFile, showCamera, srcObject,
                 hasMediaDevices, nextStream, liveStreams, pendingBlobs,
                 captureOutcome, identifyVars>>

\* stopCameraStream (lines 105-110): the streams left live.
stopCameraStream ==
  IF showCamera /\ srcObject # NoStream
    THEN liveStreams \ {srcObject}
    ELSE liveStreams

\* captureImage (lines 78-103) up to the toBlob call.  The Capture button is
\* rendered with the video element (lines 234-251).  context: getContext
\* returned one; frame: the video has a frame of non-zero size (it has none
\* without a stream); encoded: the encoder produces a blob.
CaptureImage ==
  /\ showCamera
  /\ Len(pendingBlobs) < MaxPendingBlobs
  /\ \E context \in BOOLEAN, frame \in BOOLEAN, encoded \in BOOLEAN :
       IF context
         THEN /\ pendingBlobs' =
                   Append(pendingBlobs,
                          IF srcObject = NoStream THEN "noSession"
                          ELSE IF frame /\ encoded THEN "blob" ELSE "null")
              /\ captureOutcome' = "pending"
         ELSE /\ pendingBlobs' = pendingBlobs
              /\ captureOutcome' =
                   IF srcObject = NoStream THEN "noSession" ELSE "noContext"
  /\ UNCHANGED <<file, preview, previewReads, currentRead, nextFile, showCamera, srcObject,
                 hasMediaDevices, pendingMedia, nextStream, liveStreams,
                 openOutcome, identifyVars>>

\* The toBlob callback (lines 91-100) with a blob.
BlobCallback ==
  /\ pendingBlobs # <<>>
  /\ Head(pendingBlobs) = "blob"
  /\ nextFile < MaxFiles
  /\ pendingBlobs' = Tail(pendingBlobs)
  /\ handleImageSelection([id |-> nextFile + 1, type |-> "image/jpeg", size |-> 1])
  /\ nextFile' = nextFile + 1
  /\ showCamera' = FALSE
  /\ liveStreams' = stopCameraStream
  /\ srcObject' = NoStream       \* the video element is unmounted
  /\ captureOutcome' = "captured"
  /\ UNCHANGED <<preview, hasMediaDevices, pendingMedia, nextStream,
                 openOutcome, identifyVars>>

\* The toBlob callback (lines 91-100) with null: the if of line 92 skips all.
BlobCallbackNull ==
  /\ pendingBlobs # <<>>
  /\ Head(pendingBlobs) # "blob"
  /\ pendingBlobs' = Tail(pendingBlobs)
  /\ captureOutcome' = IF Head(pendingBlobs) = "null" THEN "noBlob" ELSE "noSession"
  /\ UNCHANGED <<file, preview, previewReads, currentRead, nextFile, showCamera, srcObject,
                 hasMediaDevices, pendingMedia, nextStream, liveStreams,
                 openOutcome, identifyVars>>

\* ------------------------------------------------------------- identify
acquireVars == <<file, preview, previewReads, currentRead, nextFile>>

\* The Identify button without its disabled attribute.
IdentifyButtonNeverDisabled == preview # NoPreview

\* The Identify button (lines 268-270) is rendered inside {preview && ...}
\* and carries disabled={loading}: a click reaches identifyPlant only then.
IdentifyButtonEnabled ==
  /\ preview # NoPreview
  /\ ~loading

\* Names for this invocation's FileReader and call, not used by another
\* invocation still under way.
FreeOps == (1..MaxInFlight) \ ({r.op : r \in idReads} \cup {c.op : c \in idCalls})

\* The body of identifyPlant (lines 112-126): returns at once without a file;
\* otherwise sets loading and starts reading the file of this render.
identifyPlant ==
  IF file = NoFile
    THEN /\ lastIdentify' = [kind |-> "noFile", resp |-> <<>>]
         /\ UNCHANGED <<plantInfo, loading, idReads, idCalls, triggered, calls,
                        resultOf>>
    ELSE /\ loading' = TRUE
         /\ idReads' = idReads \cup
              {[op |-> CHOOSE o \in FreeOps : \A p \in FreeOps : o <= p,
                file |-> file]}
         /\ lastIdentify' = NoOutcome
         /\ triggered' = file
         /\ calls' = 0
         /\ UNCHANGED <<plantInfo, idCalls, resultOf>>

\* A click on the Identify button.
IdentifyPlant ==
  /\ IdentifyButtonEnabled
  /\ FreeOps # {}
  /\ identifyPlant
  /\ UNCHANGED <<acquireVars, cameraVars>>

\* identifyPlant called while no file is current.  The button is not rendered
\* then (there is no preview), so this is the handler invoked directly.
IdentifyPlantNoFile ==
  /\ file = NoFile
  /\ identifyPlant
  /\ UNCHANGED <<acquireVars, cameraVars>>

\* reader.onload taking the media type from the file current when the read
\* completes instead of the file of the closure.
IdentifyReadLoadedCurrentType ==
  /\ \E r \in idReads :
       /\ idReads' = idReads \ {r}
       /\ idCalls' = idCalls \cup
            {[op |-> r.op, mimeType |-> file.type, data |-> DataURL(r.file).data]}
  /\ calls' = calls + 1
  /\ UNCHANGED <<plantInfo, loading, lastIdentify, triggered, resultOf,
                 acquireVars, cameraVars>>

\* reader.onload (lines 126-157) up to the await: the call carries the type
\* of the file of the closure and the part of the data URL after the comma.
IdentifyReadLoaded ==
  /\ \E r \in idReads :
       /\ idReads' = idReads \ {r}
       /\ idCalls' = idCalls \cup
            {[op |-> r.op, mimeType |-> r.file.type, data |-> DataURL(r.file).data]}
  /\ calls' = calls + 1
  /\ UNCHANGED <<plantInfo, loading, lastIdentify, triggered, resultOf,
                 acquireVars, cameraVars>>

\* The read of line 125 fails: no onerror handler is installed, and the
\* catch of lines 177-181 only covers the synchronous part.
IdentifyReadError ==
  /\ \E r \in idReads : idReads' = idReads \ {r}
  /\ lastIdentify' = [kind |-> "readError", resp |-> <<>>]
  /\ UNCHANGED <<plantInfo, loading, idCalls, triggered, calls, resultOf,
                 acquireVars, cameraVars>>

\* The try/catch of lines 166-173, p being the outcome of JSON.parse: the
\* value handed to setPlantInfo.
InfoOrNull(p) == IF p.ok THEN p.val ELSE JsNull

\* The parse step (lines 162-173): the value handed to setPlantInfo.
parsedInfo(responseText) == InfoOrNull(JsonParse(cleanedResponse(responseText)))

\* The parse step applied to each text the service may answer with.
ResponseInfo == [responseText \in Responses |-> parsedInfo(responseText)]

\* generateContent resolves (lines 159-175).
ServiceResponds ==
  /\ \E c \in idCalls, responseText \in Responses :
       /\ idCalls' = idCalls \ {c}
       /\ plantInfo' = ResponseInfo[responseText]
       /\ lastIdentify' = [kind |-> "response", resp |-> responseText]
       /\ resultOf' = c.data
  /\ loading' = FALSE
  /\ UNCHANGED <<idReads, triggered, calls, acquireVars, cameraVars>>

\* A rejected call issued again by the handler.
ServiceRejectsRetry ==
  /\ \E c \in idCalls : idCalls' = idCalls
  /\ calls' = calls + 1
  /\ lastIdentify' = [kind |-> "rejected", resp |-> <<>>]
  /\ UNCHANGED <<plantInfo, loading, idReads, triggered, resultOf,
                 acquireVars, cameraVars>>

\* generateContent rejects, or result.response.text() throws (lines 149-159):
\* the async onload has no try around them, so the rest of the handler is
\* skipped and nothing catches the rejection.
ServiceRejects ==
  /\ \E c \in idCalls : idCalls' = idCalls \ {c}
  /\ lastIdentify' = [kind |-> "rejected", resp |-> <<>>]
  /\ UNCHANGED <<plantInfo, loading, idReads, triggered, calls, resultOf,
                 acquireVars, cameraVars>>

\* ---------------------------------------------------------- specification
NextAcquire ==
  \/ HandleFileChangeEmpty
  \/ HandleFileChange
  \/ PreviewLoaded
  \/ PreviewReadError

NextCamera ==
  \/ StartCamera
  \/ MediaGranted
  \/ MediaDenied
  \/ CaptureImage
  \/ BlobCallback
  \/ BlobCallbackNull

NextIdentify ==
  \/ IdentifyPlant
  \/ IdentifyReadLoaded
  \/ IdentifyReadError
  \/ ServiceResponds
  \/ ServiceRejects

Next == NextAcquire \/ NextCamera \/ NextIdentify

\* The whole component.
Spec == Init /\ [][Next]_vars

\* The camera handlers read and write none of plantInfo, loading and the
\* pending identify work, and the identify handlers none of the camera's
\* state; the two meet only in handleImageSelection.  SpecCamera is the
\* component with the Identify button never clicked, SpecIdentify the
\* component with the Open Camera button never clicked.
SpecCamera == Init /\ [][NextAcquire \/ NextCamera]_vars
SpecIdentify == Init /\ [][NextAcquire \/ NextIdentify]_vars

\* SpecIdentify with identifyPlant also invoked directly, past the button.
SpecHandlers == Init /\ [][NextAcquire \/ NextIdentify \/ IdentifyPlantNoFile]_vars

\* ------------------------------------------------------------- properties
\* The identify work under way: pending file reads and pending calls.
InFlight == Cardinality(idReads) + Cardinality(idCalls)

\* A value with the six fields of PlantInfo (lines 30-37), each a string.
IsPlantInfo(v) ==
  /\ v.t = "obj"
  /\ SixKeys \subseteq DOMAIN v.m
  /\ \A k \in SixKeys : v.m[k].t = "str"

\* Response texts that are not a six-field structure, wrapped or bare.
NonStructureTexts == {PartialText, ArrayText, ProseText, IndentedText}

\* C1: at most one identification is in flight in every reachable state, and
\* while one is in flight loading is true, which disables the Identify button:
\* a click cannot start a second read or call.
C1_AtMostOneInFlight ==
  /\ InFlight <= 1
  /\ InFlight = 1 => loading /\ ~ENABLED IdentifyPlant

\* C1 witness: a second identify was accepted after the first resolved with a
\* result, and its call is now in flight.
C1_Witness ==
  /\ Cardinality(idCalls) = 1
  /\ loading
  /\ plantInfo # JsNull

\* C2: after the external call of an identify has failed, loading is false
\* and no result is current.
C2_FailureLeavesFailed ==
  lastIdentify.kind = "rejected" => (~loading /\ plantInfo = JsNull)

\* C3: once the file read and the call of an accepted identify have completed,
\* in whatever way, the component is no longer in flight (loading is false),
\* so that the Identify button accepts a new click.
C3_NeverStuckInFlight ==
  (idReads = {} /\ idCalls = {}) => ~loading

\* C4: the current result is absent or has all six fields.
C4_AllSixOrAbsent ==
  plantInfo = JsNull \/ IsPlantInfo(plantInfo)

\* C5: after a capture made with a stream attached has taken any of its
\* exits (blob produced, no 2D context, no blob), the camera UI is closed and
\* no stream is live.
C5_ReleasedOnEveryExit ==
  captureOutcome \in {"captured", "noContext", "noBlob"}
     => (~showCamera /\ liveStreams = {})

\* C6: at most one stream with unstopped tracks exists.
C6_AtMostOneSession ==
  Cardinality(liveStreams) <= 1

\* C7: once the preview read of the current file has loaded, the preview is
\* the data URL of the current file.
C7_PreviewOfCurrentFile ==
  currentRead = "loaded" => preview = DataURL(file)

\* C8: after a response that is not a six-field structure, no result is
\* current and loading is false.
C8_UnparseableYieldsNoResult ==
  (lastIdentify.kind = "response" /\ lastIdentify.resp \in NonStructureTexts)
     => (plantInfo = JsNull /\ ~loading)

\* C9: after a response that is a six-field structure wrapped in code-fence
\* markers, the current result has exactly the six values of the structure
\* and loading is false.
C9_FencedStructureSucceeds ==
  (lastIdentify.kind = "response"
     /\ lastIdentify.resp \in FencedTexts(SixFieldText(RoseValues)))
     => (plantInfo = SixFieldRecord(RoseValues) /\ ~loading)

\* C10: after startCamera was denied the device, or found none, the camera UI
\* is closed and no stream is attached.
C10_DeniedLeavesNoSession ==
  openOutcome \in {"denied", "noDevice"}
     => (~showCamera /\ srcObject = NoStream)

\* The media types that are image types.
ImageTypes == {"image/png", "image/jpeg"}

\* C11: the current file is absent or a non-empty blob of an image type, and
\* so is the file the preview shows: a picker input that is empty or not an
\* image replaces neither.
C11_InvalidInputLeavesState ==
  /\ file = NoFile \/ (file.type \in ImageTypes /\ file.size > 0)
  /\ preview = NoPreview \/ preview.mime \in ImageTypes

\* The state the component renders (lines 40-44): the only state in which a
\* condition can be surfaced to the user.
Rendered == <<file, preview, plantInfo, loading, showCamera>>

\* C12: a capture triggered with the camera UI shown but no stream attached
\* signals the violation, so that what is rendered changes, and changes
\* neither the current file nor the preview nor starts a preview read, at
\* the click and when its toBlob callback runs.
C12_CaptureWithoutSession ==
  [][(\/ (captureOutcome' = "noSession" /\ captureOutcome # "noSession")
      \/ (/\ pendingBlobs # <<>>
          /\ Head(pendingBlobs) = "noSession"
          /\ pendingBlobs' = Tail(pendingBlobs)))
       => (/\ file' = file /\ preview' = preview /\ previewReads' = previewReads
           /\ Rendered' # Rendered)]_vars

\* C13: a call of identifyPlant with no current file signals the violation,
\* so that what is rendered changes, issues no file read and no external
\* call, and leaves loading and the current result as they were.
C13_NoFileViolation ==
  [][(lastIdentify'.kind = "noFile" /\ lastIdentify.kind # "noFile")
       => (/\ loading' = loading /\ plantInfo' = plantInfo
           /\ idReads' = idReads /\ idCalls' = idCalls
           /\ Rendered' # Rendered)]_vars

\* C14: the identify started last has issued at most one external call, and
\* exactly one once its file read has loaded: while the call is pending and
\* after it has resolved or been rejected.
C14_ExactlyOneCall ==
  /\ calls <= 1
  /\ Cardinality(idCalls) <= calls
  /\ (triggered # NoFile /\ idReads = {} /\ lastIdentify.kind # "readError")
       => calls = 1

\* C14 witness: the call of an identify was rejected, and it stays the only
\* call that identify issued.
C14_Witness ==
  /\ lastIdentify.kind = "rejected"
  /\ calls = 1
  /\ idCalls = {}

\* A step of the component that closes the camera UI and stops the attached
\* stream while leaving the current file and the preview as they are.
CloseWithoutCapture ==
  /\ Next
  /\ showCamera' = FALSE
  /\ liveStreams' = liveStreams \ {srcObject}
  /\ file' = file
  /\ preview' = preview

\* C15: whenever a stream is attached and the camera UI open, the session can
\* be released without capturing.
C15_CloseReleases ==
  (showCamera /\ srcObject # NoStream) => ENABLED CloseWithoutCapture

\* C16: a current result is the result of the current file.
C16_ResultOfCurrentFile ==
  plantInfo # JsNull => resultOf = file.id

\* C17: every pending external call carries the media type and the payload of
\* the file that was current when its identify was triggered.
C17_CallCarriesTriggeredFile ==
  \A c \in idCalls :
     /\ c.mimeType = triggered.type
     /\ c.data = DataURL(triggered).data

\* C17 witness: a call is pending while a file of another media type has
\* become current since the identify was triggered.
C17_Witness ==
  \E c \in idCalls :
     /\ file # triggered
     /\ c.mimeType # file.type

====
